---- MODULE Spec2Model ----
(***************************************************************************)
(* Model of difync's reconciliation engine (internal/syncer/syncer.go, the *)
(* download-only variant with rename and deletion handling, lines 1-615)   *)
(* together with the API client it calls (internal/api/client.go).         *)
(*                                                                         *)
(* Names are sequences of one-character strings, so that sanitizeFilename  *)
(* and the "%s_%d.yaml" formatting are computed character by character.    *)
(* An instant is a pair <<sec, nsec>>; remote timestamps are whole seconds *)
(* while local modification times may carry a sub-second part.             *)
(***************************************************************************)
EXTENDS Integers, Sequences, FiniteSets, TLC

VARIABLES
    token,          \* Client.token is non-empty (Login succeeded)
    dryRun,         \* Config.DryRun
    forceDirection, \* Config.ForceDirection of the bidirectional syncer
    remote,         \* server side: app id -> record
    disk,           \* DSL directory: filename -> [mtime, content]
    appMapFile,     \* the app map file on disk
    dirs,           \* the directories that exist
    now,            \* wall clock, in seconds
    runs,           \* how many more times the program is started
    pc,             \* position of the running operation
    idx,            \* loop index of the running operation
    appMap,         \* appMap.Apps of the running operation
    remoteApps,     \* SyncAll: remoteApps, Initialize: appList
    stats,          \* SyncAll: stats
    deletedApps,    \* SyncAll: deletedApps
    renamedApps,    \* SyncAll: renamedApps
    usedFilenames,  \* InitializeAppMap: usedFilenames
    results,        \* per entry outcome of the running operation, in order
    ret             \* what the last finished operation returned

vars == <<token, dryRun, forceDirection, remote, disk, appMapFile, dirs, now, runs, pc, idx,
          appMap,
          remoteApps, stats, deletedApps, renamedApps, usedFilenames,
          results, ret>>

-----------------------------------------------------------------------------
(* Bounds of the model *)

MaxApps == 2
MaxSec == 2
MaxRuns == 1

AppIDs == 1..MaxApps

-----------------------------------------------------------------------------
(* models.go *)

ActionNone == "none"
ActionDownload == "download"
ActionError == "error"

NoError == "nil"

\* an entry that always carries the first remote id
AppMappingFirstID(filename, appID) == [Filename |-> filename, AppID |-> 1]

AppMapping(filename, appID) == [Filename |-> filename, AppID |-> appID]

\* a result that starts out as a success
SyncResultSucceeded(app, action) ==
    [Filename |-> app.Filename, AppID |-> app.AppID, Action |-> action,
     Success |-> TRUE, Error |-> "nil"]

SyncResult(app, action) ==
    [Filename |-> app.Filename, AppID |-> app.AppID, Action |-> action,
     Success |-> FALSE, Error |-> NoError]

SyncStats(total, start) ==
    [Total |-> total, Downloads |-> 0, NoAction |-> 0, Errors |-> 0,
     StartTime |-> start, EndTime |-> <<>>, Duration |-> 0]

-----------------------------------------------------------------------------
(* Time *)

\* time.Unix(sec, 0)
Unix(sec) == <<sec, 0>>

\* the zero time.Time (year 1), before every instant a file or a record has
ZeroTime == <<0 - (MaxSec + 2), 0>>

\* a comparison that also holds of equal instants
NotBefore(t, u) == t[1] > u[1] \/ (t[1] = u[1] /\ t[2] >= u[2])

\* Time.After
After(t, u) == t[1] > u[1] \/ (t[1] = u[1] /\ t[2] > u[2])

\* a conversion that rounds to the nearest second
Int64OfFloatRounded(v) == v.whole + v.half

\* int64(v) of a float64 v = whole + half/2, half in {0, 1}: truncation
\* towards zero
Int64OfFloat(v) ==
    IF v.whole >= 0 \/ v.half = 0 THEN v.whole ELSE v.whole + 1

-----------------------------------------------------------------------------
(* Timestamp values.  A value is [kind, layout, whole, half].  A string    *)
(* has the layout it is written in and the second it denotes in whole; the *)
(* layout "" is the empty string and the layout "garbage" a string that no *)
(* layout parses.  A number is whole + half/2 seconds.                     *)

RFC3339 == "2006-01-02T15:04:05Z07:00"
RFC1123 == "Mon, 02 Jan 2006 15:04:05 MST"
RFC1123Z == "Mon, 02 Jan 2006 15:04:05 -0700"

OtherLayouts ==
    <<"2006-01-02 15:04:05", "2006-01-02T15:04:05", "2006/01/02 15:04:05",
      RFC1123, RFC1123Z>>

\* time.Parse(layout, v)
TimeParse(layout, v) ==
    IF v.layout = layout
    THEN [err |-> FALSE, t |-> Unix(v.whole)]
    ELSE [err |-> TRUE, t |-> ZeroTime]

\* a fallback to a late instant when no layout parses
TryLayoutsLate(layouts, i, v) ==
    IF \E k \in i..Len(layouts) : v.layout = layouts[k]
    THEN Unix(v.whole)
    ELSE Unix(MaxSec + 1)

\* the loop over layouts of SyncApp: first layout that parses wins, and
\* remoteModTime keeps its zero value when none does
RECURSIVE TryLayouts(_, _, _)
TryLayouts(layouts, i, v) ==
    IF i > Len(layouts) THEN ZeroTime
    ELSE IF ~TimeParse(layouts[i], v).err THEN TimeParse(layouts[i], v).t
    ELSE TryLayouts(layouts, i + 1, v)

\* SyncApp: "Convert interface{} updated_at to time.Time".  u is the Go
\* value of AppInfo.UpdatedAt.
ConvertUpdatedAt(u) ==
    CASE u.kind = "nil" -> [remoteModTime |-> Unix(0), useLocalTime |-> TRUE]
      [] u.kind = "string" ->
            IF u.layout # ""
            THEN IF ~TimeParse(RFC3339, u).err
                 THEN [remoteModTime |-> TimeParse(RFC3339, u).t,
                       useLocalTime |-> FALSE]
                 ELSE [remoteModTime |-> TryLayouts(OtherLayouts, 1, u),
                       useLocalTime |-> FALSE]
            ELSE [remoteModTime |-> Unix(0), useLocalTime |-> TRUE]
      [] u.kind = "float64" ->
            [remoteModTime |-> Unix(Int64OfFloat(u)), useLocalTime |-> FALSE]
      [] u.kind = "int" ->
            [remoteModTime |-> Unix(u.whole), useLocalTime |-> FALSE]
      [] u.kind = "int64" ->
            [remoteModTime |-> Unix(u.whole), useLocalTime |-> FALSE]
      [] u.kind = "json.Number" ->
            IF u.half = 0
            THEN [remoteModTime |-> Unix(u.whole), useLocalTime |-> FALSE]
            ELSE [remoteModTime |-> Unix(0), useLocalTime |-> TRUE]
      [] OTHER -> [remoteModTime |-> Unix(0), useLocalTime |-> TRUE]

-----------------------------------------------------------------------------
(* api.Client.  A call's transport outcome is a fault: "none", "neterr"    *)
(* (HTTPClient.Do fails) or "status" (a status other than 200 and 404).    *)

Faults == {"none", "neterr", "status"}

\* encoding/json decoding a JSON value into interface{}: every number
\* becomes a float64, null and a missing field become nil
GoValue(j) ==
    CASE j.kind = "null" -> [j EXCEPT !.kind = "nil"]
      [] j.kind = "missing" -> [j EXCEPT !.kind = "nil"]
      [] j.kind = "number" -> [j EXCEPT !.kind = "float64"]
      [] j.kind = "string" -> j
      [] OTHER -> [j EXCEPT !.kind = "map"]

\* an existence check that takes a missing app for a failure
DoesDSLExistStrict(tok, rem, appID, fault) ==
    IF ~tok \/ fault # "none" \/ ~rem[appID].exists
    THEN [err |-> TRUE, exists |-> FALSE]
    ELSE [err |-> FALSE, exists |-> TRUE]

\* an existence check that answers "not found" whenever it cannot tell
DoesDSLExistAbsentOnError(tok, rem, appID, fault) ==
    IF ~tok \/ fault # "none" \/ ~rem[appID].exists
    THEN [err |-> FALSE, exists |-> FALSE]
    ELSE [err |-> FALSE, exists |-> TRUE]

\* Client.DoesDSLExist
DoesDSLExist(tok, rem, appID, fault) ==
    IF ~tok THEN [err |-> TRUE, exists |-> FALSE]
    ELSE IF fault = "neterr" THEN [err |-> TRUE, exists |-> FALSE]
    ELSE IF fault = "none" /\ ~rem[appID].exists
         THEN [err |-> FALSE, exists |-> FALSE]
    ELSE IF fault = "status" THEN [err |-> TRUE, exists |-> FALSE]
    ELSE [err |-> FALSE, exists |-> TRUE]

\* a fetch that hides its failure behind an empty record
GetAppInfoSilent(tok, rem, appID, fault) ==
    IF ~tok \/ fault # "none" \/ ~rem[appID].exists
    THEN [err |-> FALSE, ID |-> appID, Name |-> <<>>,
          UpdatedAt |-> [kind |-> "nil", layout |-> "", whole |-> 0,
                        half |-> 0]]
    ELSE [err |-> FALSE, ID |-> appID, Name |-> rem[appID].name,
          UpdatedAt |-> GoValue(rem[appID].updated_at)]

\* Client.GetAppInfo
GetAppInfo(tok, rem, appID, fault) ==
    IF ~tok \/ fault # "none" \/ ~rem[appID].exists
    THEN [err |-> TRUE, ID |-> appID, Name |-> <<>>,
          UpdatedAt |-> [kind |-> "nil", layout |-> "", whole |-> 0,
                        half |-> 0]]
    ELSE [err |-> FALSE, ID |-> appID, Name |-> rem[appID].name,
          UpdatedAt |-> GoValue(rem[appID].updated_at)]

\* a fetch that hides its failure behind an empty document
GetDSLSilent(tok, rem, appID, fault) ==
    IF ~tok \/ fault # "none" \/ ~rem[appID].exists
    THEN [err |-> FALSE, dsl |-> <<>>]
    ELSE [err |-> FALSE, dsl |-> rem[appID].dsl]

\* Client.GetDSL
GetDSL(tok, rem, appID, fault) ==
    IF ~tok \/ fault # "none" \/ ~rem[appID].exists
    THEN [err |-> TRUE, dsl |-> <<>>]
    ELSE [err |-> FALSE, dsl |-> rem[appID].dsl]

\* Client.GetAppList: the records of the existing apps, in id order
RECURSIVE AppListFrom(_, _)
AppListFrom(rem, i) ==
    IF i > MaxApps THEN <<>>
    ELSE IF rem[i].exists
         THEN <<[ID |-> i, Name |-> rem[i].name,
                 UpdatedAt |-> GoValue(rem[i].updated_at)]>>
              \o AppListFrom(rem, i + 1)
         ELSE AppListFrom(rem, i + 1)

GetAppList(tok, rem, fault) ==
    IF ~tok \/ fault # "none"
    THEN [err |-> TRUE, apps |-> <<>>]
    ELSE [err |-> FALSE, apps |-> AppListFrom(rem, 1)]

-----------------------------------------------------------------------------
(* The filesystem *)

\* Config.DSLDirectory and filepath.Dir(Config.AppMapFile)
DSLDirectory == "dsl"
AppMapDir == "appmapdir"

\* os.Stat(path) returns an error
StatFails(d, path, fault) == fault # "none" \/ path \notin DOMAIN d

\* os.WriteFile(path, data): fault "open" leaves the file as it was, fault
\* "write" leaves it truncated
WriteFile(d, path, data, clock, fault) ==
    CASE fault = "none" ->
            [err |-> FALSE,
             disk |-> (path :> [mtime |-> Unix(clock), content |-> data]) @@ d]
      [] fault = "write" ->
            [err |-> TRUE,
             disk |-> (path :> [mtime |-> Unix(clock), content |-> <<>>]) @@ d]
      [] OTHER -> [err |-> TRUE, disk |-> d]

WriteFaults == {"none", "open", "write"}

\* os.Remove(path)
Remove(d, path, fault) ==
    IF fault # "none" \/ path \notin DOMAIN d
    THEN [err |-> TRUE, disk |-> d]
    ELSE [err |-> FALSE, disk |-> [f \in DOMAIN d \ {path} |-> d[f]]]

\* os.Rename(oldPath, newPath): replaces newPath when it exists
Rename(d, oldPath, newPath, fault) ==
    IF fault # "none" \/ oldPath \notin DOMAIN d
    THEN [err |-> TRUE, disk |-> d]
    ELSE [err |-> FALSE,
          disk |-> [f \in (DOMAIN d \ {oldPath}) \cup {newPath} |->
                        IF f = newPath THEN d[oldPath] ELSE d[f]]]

\* DefaultSyncer.fileExists
fileExists(d, path) == path \in DOMAIN d

-----------------------------------------------------------------------------
(* DefaultSyncer.downloadFromRemote and DefaultSyncer.SyncApp.  env gives  *)
(* the fault of each call the operation may make; the value is the         *)
(* SyncResult, the directory afterwards and the calls made, in order.      *)

\* a download that reports success without writing the file
downloadWithoutWrite(app, localPath, d, tok, rem, dry, clock, env) ==
    LET result == SyncResult(app, ActionDownload)
        got == GetDSL(tok, rem, app.AppID, env.dsl)
    IN  IF got.err
        THEN [result |-> [result EXCEPT !.Error = "failed to get DSL from Dify"],
              disk |-> d, calls |-> <<"GetDSL">>]
        ELSE IF dry
        THEN [result |-> [result EXCEPT !.Success = TRUE],
              disk |-> d, calls |-> <<"GetDSL">>]
        ELSE [result |-> [result EXCEPT !.Success = TRUE],
              disk |-> d, calls |-> <<"GetDSL", "WriteFile">>]

downloadFromRemote(app, localPath, d, tok, rem, dry, clock, env) ==
    LET result == SyncResult(app, ActionDownload)
        got == GetDSL(tok, rem, app.AppID, env.dsl)
        wr == WriteFile(d, localPath, got.dsl, clock, env.write)
    IN  IF got.err
        THEN [result |-> [result EXCEPT !.Error = "failed to get DSL from Dify"],
              disk |-> d, calls |-> <<"GetDSL">>]
        ELSE IF dry
        THEN [result |-> [result EXCEPT !.Success = TRUE],
              disk |-> d, calls |-> <<"GetDSL">>]
        ELSE IF wr.err
        THEN [result |-> [result EXCEPT
                              !.Error = "failed to write DSL to local file"],
              disk |-> wr.disk, calls |-> <<"GetDSL", "WriteFile">>]
        ELSE [result |-> [result EXCEPT !.Success = TRUE],
              disk |-> wr.disk, calls |-> <<"GetDSL", "WriteFile">>]

SyncApp(app, d, tok, rem, dry, clock, env) ==
    LET result == SyncResult(app, ActionNone)
        localPath == app.Filename
        ex == DoesDSLExist(tok, rem, app.AppID, env.exist)
        appInfo == GetAppInfo(tok, rem, app.AppID, env.info)
        conv == ConvertUpdatedAt(appInfo.UpdatedAt)
        dl == downloadFromRemote(app, localPath, d, tok, rem, dry, clock, env)
    IN  IF StatFails(d, localPath, env.stat)
        THEN [result |-> [result EXCEPT !.Action = ActionError,
                              !.Error = "failed to stat local file"],
              disk |-> d, calls |-> <<"Stat">>]
        ELSE IF ex.err
        THEN [result |-> [result EXCEPT !.Action = ActionError,
                              !.Error = "failed to check if app exists"],
              disk |-> d, calls |-> <<"Stat", "DoesDSLExist">>]
        ELSE IF ~ex.exists
        THEN [result |-> [result EXCEPT !.Success = TRUE],
              disk |-> d, calls |-> <<"Stat", "DoesDSLExist">>]
        ELSE IF appInfo.err
        THEN [result |-> [result EXCEPT !.Action = ActionError,
                              !.Error = "failed to get app info"],
              disk |-> d, calls |-> <<"Stat", "DoesDSLExist", "GetAppInfo">>]
        ELSE IF conv.useLocalTime
        THEN [result |-> [result EXCEPT !.Success = TRUE],
              disk |-> d, calls |-> <<"Stat", "DoesDSLExist", "GetAppInfo">>]
        ELSE IF After(conv.remoteModTime, d[localPath].mtime)
        THEN [dl EXCEPT !.calls =
                  <<"Stat", "DoesDSLExist", "GetAppInfo">> \o dl.calls]
        ELSE [result |-> [result EXCEPT !.Success = TRUE],
              disk |-> d, calls |-> <<"Stat", "DoesDSLExist", "GetAppInfo">>]

-----------------------------------------------------------------------------
(* DefaultSyncer.sanitizeFilename and the filename formatting *)

invalidChars == {"/", "\\", ":", "*", "?", "\"", "<", ">", "|"}

\* unicode.IsSpace; a rune outside ASCII is written by its code point
IsSpace(r) == r \in {" ", "\t", "\n", "\r", "U+00A0", "U+3000"}

\* a loop that puts an underscore for a reserved character too
sanitizeLoopSubstituting(name, i, result) ==
    [k \in 1..Len(name) |->
        IF IsSpace(name[k]) \/ name[k] \in invalidChars
        THEN "_" ELSE name[k]]

RECURSIVE sanitizeLoop(_, _, _)
sanitizeLoop(name, i, result) ==
    IF i > Len(name) THEN result
    ELSE IF IsSpace(name[i]) THEN sanitizeLoop(name, i + 1, Append(result, "_"))
    ELSE IF name[i] \in invalidChars THEN sanitizeLoop(name, i + 1, result)
    ELSE sanitizeLoop(name, i + 1, Append(result, name[i]))

\* a sanitizer without the default name
sanitizeFilenameNoDefault(name) == sanitizeLoop(name, 1, <<>>)

sanitizeFilename(name) ==
    IF Len(sanitizeLoop(name, 1, <<>>)) = 0
    THEN <<"a", "p", "p">>
    ELSE sanitizeLoop(name, 1, <<>>)

\* the digits of fmt's %d, for a counter n >= 1
Digit(n) == <<"0", "1", "2", "3", "4", "5", "6", "7", "8", "9">>[n + 1]

RECURSIVE Decimal(_)
Decimal(n) ==
    IF n < 10 THEN <<Digit(n)>> ELSE Append(Decimal(n \div 10), Digit(n % 10))

\* safeName + ".yaml"
YamlName(safeName) == safeName \o <<".yaml">>

\* fmt.Sprintf("%s_%d.yaml", baseName, counter)
NumberedName(baseName, counter) ==
    baseName \o <<"_">> \o Decimal(counter) \o <<".yaml">>

\* a loop that looks at the directory only
RECURSIVE InitUniqueLoopDiskOnly(_, _, _, _, _)
InitUniqueLoopDiskOnly(d, used, filename, baseName, counter) ==
    IF fileExists(d, filename)
    THEN InitUniqueLoopDiskOnly(d, used, NumberedName(baseName, counter),
                                baseName, counter + 1)
    ELSE filename

\* InitializeAppMap: "Loop until a unique filename is found"
RECURSIVE InitUniqueLoop(_, _, _, _, _)
InitUniqueLoop(d, used, filename, baseName, counter) ==
    IF fileExists(d, filename) \/ filename \in used
    THEN InitUniqueLoop(d, used, NumberedName(baseName, counter), baseName,
                        counter + 1)
    ELSE filename

\* SyncAll: "Loop until a unique filename is found"
RECURSIVE RenameUniqueLoop(_, _, _, _)
RenameUniqueLoop(d, expectedFilename, baseName, counter) ==
    IF fileExists(d, expectedFilename)
    THEN RenameUniqueLoop(d, NumberedName(baseName, counter), baseName,
                          counter + 1)
    ELSE expectedFilename

-----------------------------------------------------------------------------
(* The app map file: absent, not well-formed JSON, or a document *)

NoFile == [state |-> "absent", Apps |-> <<>>]
BadFile == [state |-> "malformed", Apps |-> <<>>]
MapFile(apps) == [state |-> "ok", Apps |-> apps]

\* a load that takes a missing file for an empty mapping
LoadAppMapLenient(file) ==
    CASE file.state = "malformed" ->
            [err |-> "failed to decode app map", Apps |-> <<>>]
      [] OTHER -> [err |-> NoError, Apps |-> file.Apps]

\* DefaultSyncer.LoadAppMap
LoadAppMap(file) ==
    CASE file.state = "absent" ->
            [err |-> "app map file not found, run 'difync init' first",
             Apps |-> <<>>]
      [] file.state = "malformed" ->
            [err |-> "failed to decode app map", Apps |-> <<>>]
      [] OTHER -> [err |-> NoError, Apps |-> file.Apps]

\* os.Create followed by Encoder.Encode: fault "create" leaves the file as
\* it was, fault "encode" leaves it truncated
SaveFaults == {"none", "create", "encode"}

SaveAppMap(file, apps, fault) ==
    CASE fault = "none" -> [err |-> NoError, file |-> MapFile(apps)]
      [] fault = "create" ->
            [err |-> "failed to update app map file", file |-> file]
      [] OTHER ->
            [err |-> "failed to write updated app map file", file |-> BadFile]

-----------------------------------------------------------------------------
(* State of an operation that is not running *)

NoStats == SyncStats(0, <<>>)
\* what an operation returned; wrote tells whether it opened the app map
\* file for writing
NoRet == [op |-> "none", hasStats |-> FALSE, stats |-> NoStats,
          err |-> NoError, Apps |-> <<>>, wrote |-> FALSE, name |-> <<>>]

FsFaults == {"none", "fail"}

\* the faults of the calls of one iteration or one SyncApp: check is the
\* existence check of SyncAll, fs its removal or renaming, the others are
\* the calls of SyncApp
NoFaults ==
    [check |-> "none", fs |-> "none", stat |-> "none", exist |-> "none",
     info |-> "none", dsl |-> "none", write |-> "none", read |-> "none",
     update |-> "none"]

SyncEnvs ==
    {[NoFaults EXCEPT !.stat = s, !.exist = e, !.info = i, !.dsl = g,
                      !.write = w] :
        s \in FsFaults, e \in Faults, i \in {"none", "neterr"},
        g \in {"none", "neterr"}, w \in WriteFaults}

Idle ==
    /\ pc = "idle"
    /\ idx = 0
    /\ appMap = <<>>
    /\ remoteApps = <<>>
    /\ stats = NoStats
    /\ deletedApps = <<>>
    /\ renamedApps = <<>>
    /\ usedFilenames = {}
    /\ results = <<>>
    /\ ret = NoRet

\* NewSyncer: the configuration is taken and Login is tried; a failed login
\* is only logged and leaves the client without a token
NewSyncer ==
    /\ pc = "idle"
    /\ runs > 0
    /\ runs' = runs - 1
    /\ \E dry \in BOOLEAN, login \in Faults :
          /\ dryRun' = dry
          /\ token' = (login = "none")
    /\ pc' = "ready"
    /\ UNCHANGED <<forceDirection, dirs, remote, disk, appMapFile, now, idx, appMap, remoteApps,
                   stats, deletedApps, renamedApps, usedFilenames, results,
                   ret>>

\* the process ends
Exit ==
    /\ pc = "done"
    /\ pc' = "idle"
    /\ idx' = 0
    /\ appMap' = <<>>
    /\ remoteApps' = <<>>
    /\ stats' = NoStats
    /\ deletedApps' = <<>>
    /\ renamedApps' = <<>>
    /\ usedFilenames' = {}
    /\ results' = <<>>
    /\ ret' = NoRet
    /\ UNCHANGED <<dirs, runs, token, dryRun, forceDirection,
                   remote, disk, appMapFile, now>>

-----------------------------------------------------------------------------
(* DefaultSyncer.SyncAll *)

\* remoteApps[appID]: the records of the list with that id
Lookup(list, appID) == {i \in 1..Len(list) : list[i].ID = appID}

HasID(list, appID) == \E i \in 1..Len(list) : list[i].AppID = appID

FirstWithID(list, appID) ==
    list[CHOOSE i \in 1..Len(list) :
            /\ list[i].AppID = appID
            /\ \A j \in 1..(i - 1) : list[j].AppID # appID]

\* an update that drops no entry
updatedAppsKeepDeleted(apps, i, deleted, renamed) ==
    [k \in 1..Len(apps) |->
        IF HasID(renamed, apps[k].AppID)
        THEN FirstWithID(renamed, apps[k].AppID)
        ELSE apps[k]]

\* an update that changes no filename
updatedAppsKeepNames(apps, i, deleted, renamed) ==
    SelectSeq(apps, LAMBDA a : ~HasID(deleted, a.AppID))

\* an update that writes the renamed entries after the others
updatedAppsRenamedLast(apps, i, deleted, renamed) ==
    SelectSeq(apps, LAMBDA a : ~HasID(deleted, a.AppID)
                                   /\ ~HasID(renamed, a.AppID))
        \o SelectSeq(renamed, LAMBDA a : ~HasID(deleted, a.AppID))

\* SyncAll: "Create new app map without deleted apps and with updated
\* filenames"
RECURSIVE updatedApps(_, _, _, _)
updatedApps(apps, i, deleted, renamed) ==
    IF i > Len(apps) THEN <<>>
    ELSE IF HasID(deleted, apps[i].AppID)
         THEN updatedApps(apps, i + 1, deleted, renamed)
    ELSE IF HasID(renamed, apps[i].AppID)
         THEN <<FirstWithID(renamed, apps[i].AppID)>>
              \o updatedApps(apps, i + 1, deleted, renamed)
    ELSE <<apps[i]>> \o updatedApps(apps, i + 1, deleted, renamed)

\* the switch on result.Action
Count(st, action) ==
    CASE action = ActionDownload -> [st EXCEPT !.Downloads = @ + 1]
      [] action = ActionNone -> [st EXCEPT !.NoAction = @ + 1]
      [] action = ActionError -> [st EXCEPT !.Errors = @ + 1]
      [] OTHER -> st

\* SyncAll up to the loop: the app map is loaded, the statistics are
\* started and the app list is fetched
SyncAllBegin ==
    /\ pc = "ready"
    /\ \E fault \in Faults :
          LET loaded == LoadAppMap(appMapFile)
              list == GetAppList(token, remote, fault)
          IN  IF loaded.err # NoError
              THEN /\ ret' = [NoRet EXCEPT !.op = "SyncAll", !.err = loaded.err]
                   /\ pc' = "done"
                   /\ UNCHANGED <<dirs, runs, appMap, stats, remoteApps>>
              ELSE IF list.err
              THEN /\ ret' = [NoRet EXCEPT !.op = "SyncAll",
                                  !.err = "failed to get app list from API"]
                   /\ pc' = "done"
                   /\ appMap' = loaded.Apps
                   /\ stats' = SyncStats(Len(loaded.Apps), <<now>>)
                   /\ UNCHANGED remoteApps
              ELSE /\ appMap' = loaded.Apps
                   /\ stats' = SyncStats(Len(loaded.Apps), <<now>>)
                   /\ remoteApps' = list.apps
                   /\ pc' = "SyncAll"
                   /\ UNCHANGED ret
    /\ idx' = 1
    /\ UNCHANGED <<dirs, runs, token, dryRun, forceDirection,
                   remote, disk, appMapFile, now, deletedApps,
                   renamedApps, usedFilenames, results>>

InLoop == pc = "SyncAll" /\ idx <= Len(appMap)

\* what is recorded of one iteration: the entry, the branch taken, the
\* SyncResult if there is one, the calls made and the faults they met
Made(calls, name) == \E i \in 1..Len(calls) : calls[i] = name

\* the faults of the calls that were made
Met(env, calls) ==
    [check |-> env.check,
     fs |-> IF Made(calls, "Remove") \/ Made(calls, "Rename")
            THEN env.fs ELSE "none",
     stat |-> IF Made(calls, "Stat") THEN env.stat ELSE "none",
     exist |-> IF Made(calls, "GetAppInfo") \/
                  (Made(calls, "Stat") /\ calls[Len(calls)] = "DoesDSLExist")
               THEN env.exist ELSE "none",
     info |-> IF Made(calls, "GetAppInfo") THEN env.info ELSE "none",
     dsl |-> IF Made(calls, "GetDSL") THEN env.dsl ELSE "none",
     write |-> IF Made(calls, "WriteFile") THEN env.write ELSE "none",
     read |-> IF Made(calls, "ReadFile") THEN env.read ELSE "none",
     update |-> IF Made(calls, "UpdateDSL") THEN env.update ELSE "none"]

Visit(app, branch, result, calls, env) ==
    [app |-> app, branch |-> branch, result |-> result, calls |-> calls,
     env |-> Met(env, calls)]

\* the filename the remote name of an app calls for
expectedFilename(app, list) ==
    YamlName(sanitizeFilename(
        list[CHOOSE i \in Lookup(list, app.AppID) : TRUE].Name))

\* "If the current filename doesn't match the expected one based on remote
\* name"
NameChanged(app, list) ==
    /\ Lookup(list, app.AppID) # {}
    /\ app.Filename # expectedFilename(app, list)

\* "App has been deleted remotely": same is the outcome of an iteration that
\* changes nothing
DeletedBranch(same, app, d, deleted, st, dry, fs) ==
    [same EXCEPT
        !.branch = "deleted",
        !.deletedApps = Append(deleted, app),
        !.disk = IF dry THEN d ELSE Remove(d, app.Filename, fs).disk,
        !.calls = IF dry THEN <<"DoesDSLExist">>
                  ELSE <<"DoesDSLExist", "Remove">>,
        !.stats = [st EXCEPT !.Downloads = @ + 1]]

\* a renaming that goes on to sync the entry: r is the outcome of SyncApp
RenamedThenSynced(same, app, d, target, renamed, dry, fs, r) ==
    [same EXCEPT
        !.branch = "renamed",
        !.disk = IF dry THEN d ELSE Rename(d, app.Filename, target, fs).disk,
        !.renamedApps = Append(renamed, AppMapping(target, app.AppID)),
        !.result = r.result,
        !.calls = (IF dry THEN <<"DoesDSLExist">>
                   ELSE <<"DoesDSLExist", "Rename">>) \o r.calls,
        !.stats = Count(same.stats, r.result.Action)]

\* "Check if app name has changed": the file is renamed to target, the new
\* mapping is recorded and the entry is not processed further
RenamedBranch(same, app, d, target, renamed, dry, fs, r) ==
    [same EXCEPT
        !.branch = "renamed",
        !.disk = IF dry THEN d ELSE Rename(d, app.Filename, target, fs).disk,
        !.calls = IF dry THEN <<"DoesDSLExist">>
                  ELSE <<"DoesDSLExist", "Rename">>,
        !.renamedApps = Append(renamed, AppMapping(target, app.AppID))]

\* the body of the loop of SyncAll for one entry: the branch it takes, the
\* directory, statistics, deletedApps and renamedApps afterwards
SyncAllStep(app, d, list, deleted, renamed, st, tok, rem, dry, clock, env) ==
    LET ex == DoesDSLExist(tok, rem, app.AppID, env.check)
        safeName == sanitizeFilename(
            list[CHOOSE i \in Lookup(list, app.AppID) : TRUE].Name)
        target == RenameUniqueLoop(d, YamlName(safeName), safeName, 1)
        r == SyncApp(app, d, tok, rem, dry, clock, env)
        same == [branch |-> "skipped", result |-> SyncResult(app, ActionNone),
                 calls |-> <<"DoesDSLExist">>, disk |-> d, stats |-> st,
                 deletedApps |-> deleted, renamedApps |-> renamed]
    IN  IF ex.err THEN same
        ELSE IF ~ex.exists
        THEN DeletedBranch(same, app, d, deleted, st, dry, env.fs)
        ELSE IF NameChanged(app, list)
        THEN RenamedBranch(same, app, d, target, renamed, dry, env.fs, r)
        ELSE [same EXCEPT
                 !.branch = "synced",
                 !.result = r.result,
                 !.disk = r.disk,
                 !.calls = <<"DoesDSLExist">> \o r.calls,
                 !.stats = Count(st, r.result.Action)]

\* one iteration of the loop that takes the given branch
SyncAllIteration(branch, envs) ==
    /\ InLoop
    /\ \E env \in envs :
          LET o == SyncAllStep(appMap[idx], disk, remoteApps, deletedApps,
                               renamedApps, stats, token, remote, dryRun,
                               now, env)
          IN  /\ o.branch = branch
              /\ disk' = o.disk
              /\ stats' = o.stats
              /\ deletedApps' = o.deletedApps
              /\ renamedApps' = o.renamedApps
              /\ results' = Append(results,
                    Visit(appMap[idx], o.branch, o.result, o.calls, env))
    /\ idx' = idx + 1
    /\ UNCHANGED <<dirs, runs, token, dryRun, forceDirection,
                   remote, appMapFile, now, pc,
                   appMap, remoteApps, usedFilenames, ret>>

\* the faults an iteration can meet: of the existence check, of the
\* removal or renaming when one is made, of the calls of SyncApp
CheckEnvs == {[NoFaults EXCEPT !.check = f] : f \in Faults}

FsEnvs ==
    {[e EXCEPT !.fs = f] :
        e \in CheckEnvs, f \in (IF dryRun THEN {"none"} ELSE FsFaults)}

SyncAllEnvs == {[e EXCEPT !.check = f] : e \in SyncEnvs, f \in Faults}

\* the existence check fails and the entry is skipped
SyncAllCheckFails == SyncAllIteration("skipped", CheckEnvs)

\* the app has been deleted remotely
SyncAllDeleted == SyncAllIteration("deleted", FsEnvs)

\* the app name has changed
SyncAllRenamed == SyncAllIteration("renamed", FsEnvs)

\* "Process existing apps"
SyncAllSyncApp == SyncAllIteration("synced", SyncAllEnvs)

\* the loop left one entry early
LoopDoneEarly == idx >= Len(appMap)

\* the loop over appMap.Apps has gone through every entry
LoopDone == idx > Len(appMap)

\* an update whatever the run found and whatever the mode
UpdateAlways(deleted, renamed, dry) == TRUE

\* "Update app map if apps were deleted or renamed"
UpdateNeeded(deleted, renamed, dry) ==
    (Len(deleted) > 0 \/ Len(renamed) > 0) /\ ~dry

\* SyncAll after the loop: the app map is updated and the statistics are
\* returned
SyncAllEnd ==
    /\ pc = "SyncAll"
    /\ LoopDone
    /\ \E fault \in SaveFaults :
          LET saved == SaveAppMap(appMapFile,
                          updatedApps(appMap, 1, deletedApps, renamedApps),
                          fault)
          IN  IF UpdateNeeded(deletedApps, renamedApps, dryRun)
              THEN /\ appMapFile' = saved.file
                   /\ IF saved.err # NoError
                      THEN /\ stats' = stats
                           /\ ret' = [NoRet EXCEPT !.op = "SyncAll",
                                          !.hasStats = TRUE, !.stats = stats,
                                          !.err = saved.err, !.wrote = TRUE]
                      ELSE /\ stats' = [stats EXCEPT !.EndTime = <<now>>,
                                        !.Duration = now - stats.StartTime[1]]
                           /\ ret' = [NoRet EXCEPT !.op = "SyncAll",
                                          !.hasStats = TRUE, !.stats = stats',
                                          !.wrote = TRUE]
              ELSE /\ fault = "none"
                   /\ appMapFile' = appMapFile
                   /\ stats' = [stats EXCEPT !.EndTime = <<now>>,
                                        !.Duration = now - stats.StartTime[1]]
                   /\ ret' = [NoRet EXCEPT !.op = "SyncAll",
                                  !.hasStats = TRUE, !.stats = stats']
    /\ pc' = "done"
    /\ UNCHANGED <<dirs, runs, token, dryRun, forceDirection,
                   remote, disk, now, idx, appMap, remoteApps,
                   deletedApps, renamedApps, usedFilenames, results>>

-----------------------------------------------------------------------------
(* A direct call of DefaultSyncer.SyncApp on one mapping *)

CallSyncApp ==
    /\ pc = "ready"
    /\ \E app \in {AppMapping(f, 1) : f \in DOMAIN disk \cup {YamlName(<<"a">>)}},
          env \in SyncEnvs :
          LET r == SyncApp(app, disk, token, remote, dryRun, now, env)
          IN  /\ disk' = r.disk
              /\ results' = Append(results,
                                   Visit(app, "synced", r.result, r.calls, env))
              /\ ret' = [NoRet EXCEPT !.op = "SyncApp"]
    /\ pc' = "done"
    /\ UNCHANGED <<dirs, runs, token, dryRun, forceDirection,
                   remote, appMapFile, now, idx, appMap,
                   remoteApps, stats, deletedApps, renamedApps, usedFilenames>>

-----------------------------------------------------------------------------
(* The environment: what the server holds and what the directory holds *)

\* display names; two apps may carry the same one
Names == {<<"a">>, <<"b", " ">>}

InitFilenames ==
    {YamlName(sanitizeFilename(n)) : n \in Names}
        \cup {NumberedName(sanitizeFilename(<<"a">>), 1)}

RemoteSecs == (0 - 1)..MaxSec

Layouts ==
    {RFC3339} \cup {OtherLayouts[i] : i \in 1..Len(OtherLayouts)}

JsonValue(kind, layout, whole, half) ==
    [kind |-> kind, layout |-> layout, whole |-> whole, half |-> half]
JsonNull == JsonValue("null", "", 0, 0)
JsonNumber(whole, half) == JsonValue("number", "", whole, half)
JsonString(layout, sec) == JsonValue("string", layout, sec, 0)

\* every shape of updated_at the API has sent
JsonTimestamps ==
    {JsonNull, JsonValue("missing", "", 0, 0), JsonValue("object", "", 0, 0),
     JsonString("", 0)}
        \cup {JsonString("garbage", t) : t \in RemoteSecs}
        \cup {JsonString(l, t) : l \in Layouts, t \in RemoteSecs}
        \cup {JsonNumber(w, h) : w \in RemoteSecs, h \in {0, 1}}

Gone == [exists |-> FALSE, name |-> <<>>, updated_at |-> JsonNull, dsl |-> <<>>]

Record(i, name, ts) ==
    [exists |-> TRUE, name |-> name, updated_at |-> ts, dsl |-> <<"dsl", i>>]

\* the records app i may have in a reconciliation run
Records(i) == {Gone} \cup {Record(i, n, JsonNumber(1, 0)) : n \in Names}

\* modification times of the local files: before and after the remote one
FileTimes == {<<0, 1>>, <<MaxSec, 0>>}

AllFileTimes == {<<t, n>> : t \in 0..MaxSec, n \in {0, 1}}

LocalFile(t) == [mtime |-> t, content |-> <<"local">>]

Disks(names, times) ==
    UNION {[S -> {LocalFile(t) : t \in times}] : S \in SUBSET names}

Injective(f) == \A i, j \in DOMAIN f : f[i] = f[j] => i = j

\* app maps with pairwise distinct filenames and ids
AppMaps ==
    UNION {{[i \in 1..n |-> AppMapping(f[i], i)] :
                f \in {g \in [1..n -> InitFilenames] : Injective(g)}} :
           n \in 0..MaxApps}

\* time passes
Tick ==
    /\ pc = "idle"
    /\ now < MaxSec
    /\ now' = now + 1
    /\ UNCHANGED <<dirs, runs, token, dryRun, forceDirection,
                   remote, disk, appMapFile, pc, idx, appMap,
                   remoteApps, stats, deletedApps, renamedApps, usedFilenames,
                   results, ret>>

-----------------------------------------------------------------------------
(* Reconciliation runs *)

Init ==
    /\ token = FALSE
    /\ dryRun = FALSE
    /\ forceDirection = ""
    /\ remote \in {r \in [AppIDs -> UNION {Records(i) : i \in AppIDs}] :
                      \A i \in AppIDs : r[i] \in Records(i)}
    /\ disk \in Disks(InitFilenames, FileTimes)
    /\ appMapFile \in {NoFile, BadFile} \cup {MapFile(m) : m \in AppMaps}
    /\ dirs = {DSLDirectory, AppMapDir}
    /\ now = 1
    /\ runs = MaxRuns
    /\ Idle

SyncAll ==
    \/ SyncAllBegin
    \/ SyncAllCheckFails
    \/ SyncAllDeleted
    \/ SyncAllRenamed
    \/ SyncAllSyncApp
    \/ SyncAllEnd

Next ==
    \/ NewSyncer
    \/ SyncAll
    \/ Exit

Spec == Init /\ [][Next]_vars

-----------------------------------------------------------------------------
(* Single pair decisions *)

InitApp ==
    /\ token = FALSE
    /\ dryRun = FALSE
    /\ forceDirection = ""
    /\ \E ts \in JsonTimestamps, e \in BOOLEAN :
          remote = [i \in AppIDs |->
                        IF i = 1 /\ e THEN Record(1, <<"a">>, ts) ELSE Gone]
    /\ disk \in Disks({YamlName(<<"a">>)}, AllFileTimes)
    /\ appMapFile = NoFile
    /\ dirs = {DSLDirectory, AppMapDir}
    /\ now = 0
    /\ runs = MaxRuns
    /\ Idle

NextApp ==
    \/ NewSyncer
    \/ CallSyncApp
    \/ Exit
    \/ Tick

SpecApp == InitApp /\ [][NextApp]_vars

\* SyncApp is called a second time on the same mapping by the same syncer,
\* the server and the directory being as the first call left them
CallSyncAppAgain ==
    /\ pc = "done"
    /\ ret.op = "SyncApp"
    /\ Len(results) = 1
    /\ \E env \in SyncEnvs :
          LET app == results[1].app
              r == SyncApp(app, disk, token, remote, dryRun, now, env)
          IN  /\ disk' = r.disk
              /\ results' = Append(results,
                                   Visit(app, "synced", r.result, r.calls, env))
    /\ UNCHANGED <<dirs, runs, token, dryRun, forceDirection,
                   remote, appMapFile, now, pc, idx,
                   appMap, remoteApps, stats, deletedApps, renamedApps,
                   usedFilenames, ret>>

-----------------------------------------------------------------------------
(* The bidirectional syncer: the client is given a token, AppInfo.UpdatedAt *)
(* is a time.Time, and a pair is uploaded, downloaded or left alone.        *)

ActionUpload == "upload"

ForceDirections == {"", "upload", "download"}

\* NewSyncer of the bidirectional syncer: no login, the token is configured
NewSyncerBidirectional ==
    /\ pc = "idle"
    /\ runs > 0
    /\ runs' = runs - 1
    /\ dryRun' \in BOOLEAN
    /\ forceDirection' \in ForceDirections
    /\ token' = TRUE
    /\ pc' = "readyBidirectional"
    /\ UNCHANGED <<dirs, remote, disk, appMapFile, now, idx, appMap, remoteApps,
                   stats, deletedApps, renamedApps, usedFilenames, results,
                   ret>>

\* Client.GetAppInfo with UpdatedAt a time.Time: encoding/json takes an
\* RFC 3339 string, leaves the zero time for null or a missing field and
\* fails on every other value
GetAppInfoBidirectional(tok, rem, appID, fault) ==
    LET u == rem[appID].updated_at
        none == [err |-> TRUE, ID |-> appID, Name |-> <<>>,
                 UpdatedAt |-> ZeroTime]
    IN  IF ~tok \/ fault # "none" \/ ~rem[appID].exists THEN none
        ELSE IF u.kind \in {"null", "missing"}
        THEN [err |-> FALSE, ID |-> appID, Name |-> rem[appID].name,
              UpdatedAt |-> ZeroTime]
        ELSE IF u.kind = "string" /\ u.layout = RFC3339
        THEN [err |-> FALSE, ID |-> appID, Name |-> rem[appID].name,
              UpdatedAt |-> Unix(u.whole)]
        ELSE none

\* Client.UpdateDSL: the server replaces the DSL of the app
UpdateDSL(tok, rem, appID, dsl, fault) ==
    IF ~tok \/ fault # "none" \/ ~rem[appID].exists
    THEN [err |-> TRUE, remote |-> rem]
    ELSE [err |-> FALSE, remote |-> [rem EXCEPT ![appID].dsl = dsl]]

\* os.ReadFile(path)
ReadFile(d, path, fault) ==
    IF fault # "none" \/ path \notin DOMAIN d
    THEN [err |-> TRUE, data |-> <<>>]
    ELSE [err |-> FALSE, data |-> d[path].content]

\* DefaultSyncer.uploadToRemote
uploadToRemote(app, localPath, d, tok, rem, dry, env) ==
    LET result == SyncResult(app, ActionUpload)
        rd == ReadFile(d, localPath, env.read)
        up == UpdateDSL(tok, rem, app.AppID, rd.data, env.update)
    IN  IF rd.err
        THEN [result |-> [result EXCEPT
                              !.Error = "failed to read local DSL file"],
              disk |-> d, remote |-> rem, calls |-> <<"ReadFile">>]
        ELSE IF dry
        THEN [result |-> [result EXCEPT !.Success = TRUE],
              disk |-> d, remote |-> rem, calls |-> <<"ReadFile">>]
        ELSE IF up.err
        THEN [result |-> [result EXCEPT
                              !.Error = "failed to update DSL in Dify"],
              disk |-> d, remote |-> rem,
              calls |-> <<"ReadFile", "UpdateDSL">>]
        ELSE [result |-> [result EXCEPT !.Success = TRUE],
              disk |-> d, remote |-> up.remote,
              calls |-> <<"ReadFile", "UpdateDSL">>]

\* a choice that compares the times the other way round
DirectionReversed(force, localModTime, remoteModTime) ==
    IF force = "upload" THEN "upload"
    ELSE IF force = "download" THEN "download"
    ELSE IF After(remoteModTime, localModTime) THEN "upload"
    ELSE IF After(localModTime, remoteModTime) THEN "download"
    ELSE ""

\* a choice that does not look at the forced direction
DirectionUnforced(force, localModTime, remoteModTime) ==
    IF After(localModTime, remoteModTime) THEN "upload"
    ELSE IF After(remoteModTime, localModTime) THEN "download"
    ELSE ""

\* SyncApp: "Determine sync direction based on modification times and
\* force direction"
Direction(force, localModTime, remoteModTime) ==
    IF force = "upload" THEN "upload"
    ELSE IF force = "download" THEN "download"
    ELSE IF After(localModTime, remoteModTime) THEN "upload"
    ELSE IF After(remoteModTime, localModTime) THEN "download"
    ELSE ""

\* DefaultSyncer.SyncApp of the bidirectional syncer
SyncAppBidirectional(app, d, tok, rem, dry, force, clock, env) ==
    LET result == SyncResult(app, ActionNone)
        localPath == app.Filename
        appInfo == GetAppInfoBidirectional(tok, rem, app.AppID, env.info)
        up == uploadToRemote(app, localPath, d, tok, rem, dry, env)
        dl == downloadFromRemote(app, localPath, d, tok, rem, dry, clock, env)
    IN  IF StatFails(d, localPath, env.stat)
        THEN [result |-> [result EXCEPT !.Action = ActionError,
                              !.Error = "failed to stat local file"],
              disk |-> d, remote |-> rem, calls |-> <<"Stat">>]
        ELSE IF appInfo.err
        THEN [result |-> [result EXCEPT !.Action = ActionError,
                              !.Error = "failed to get app info"],
              disk |-> d, remote |-> rem, calls |-> <<"Stat", "GetAppInfo">>]
        ELSE LET to == Direction(force, d[localPath].mtime, appInfo.UpdatedAt)
             IN  IF to = "upload"
                 THEN [up EXCEPT !.calls = <<"Stat", "GetAppInfo">> \o up.calls]
                 ELSE IF to = "download"
                 THEN [result |-> dl.result, disk |-> dl.disk, remote |-> rem,
                       calls |-> <<"Stat", "GetAppInfo">> \o dl.calls]
                 ELSE [result |-> [result EXCEPT !.Success = TRUE],
                       disk |-> d, remote |-> rem,
                       calls |-> <<"Stat", "GetAppInfo">>]

\* the faults a call of the bidirectional SyncApp can meet
BidirectionalEnvs ==
    {[NoFaults EXCEPT !.stat = s, !.info = i, !.dsl = g, !.write = w,
                      !.read = r, !.update = u] :
        s \in FsFaults, i \in {"none", "neterr"}, g \in {"none", "neterr"},
        w \in WriteFaults, r \in FsFaults, u \in {"none", "neterr"}}

\* a direct call of SyncApp of the bidirectional syncer on one mapping
CallSyncAppBidirectional ==
    /\ pc = "readyBidirectional"
    /\ \E app \in {AppMapping(f, 1) : f \in DOMAIN disk \cup {YamlName(<<"a">>)}},
          env \in BidirectionalEnvs :
          LET r == SyncAppBidirectional(app, disk, token, remote, dryRun,
                                        forceDirection, now, env)
          IN  /\ disk' = r.disk
              /\ remote' = r.remote
              /\ results' = Append(results,
                                   Visit(app, "synced", r.result, r.calls, env))
              /\ ret' = [NoRet EXCEPT !.op = "SyncAppBidirectional"]
    /\ pc' = "done"
    /\ UNCHANGED <<dirs, runs, token, dryRun, forceDirection, appMapFile, now,
                   idx, appMap, remoteApps, stats, deletedApps, renamedApps,
                   usedFilenames>>

\* direct calls of SyncApp of either syncer
NextModes ==
    \/ NewSyncer
    \/ NewSyncerBidirectional
    \/ CallSyncApp
    \/ CallSyncAppBidirectional
    \/ Exit
    \/ Tick

SpecModes == InitApp /\ [][NextModes]_vars

NextAgain ==
    \/ NewSyncer
    \/ CallSyncApp
    \/ CallSyncAppAgain
    \/ Exit
    \/ Tick

SpecAgain == InitApp /\ [][NextAgain]_vars

-----------------------------------------------------------------------------
(* DefaultSyncer.InitializeAppMap *)

\* InitializeAppMap up to the loop: the app list is fetched and the
\* directories are made
InitializeBegin ==
    /\ pc = "ready"
    /\ \E fault \in Faults, mkdir \in FsFaults :
          LET list == GetAppList(token, remote, fault)
          IN  IF list.err
              THEN /\ ret' = [NoRet EXCEPT !.op = "InitializeAppMap",
                                  !.err = "failed to get app list from API"]
                   /\ pc' = "done"
                   /\ UNCHANGED <<remoteApps, dirs>>
              ELSE IF Len(list.apps) = 0
              THEN /\ ret' = [NoRet EXCEPT !.op = "InitializeAppMap",
                                  !.err = "no applications found in Dify account"]
                   /\ pc' = "done"
                   /\ UNCHANGED <<remoteApps, dirs>>
              ELSE IF mkdir # "none" /\ {DSLDirectory, AppMapDir} \ dirs # {}
              THEN /\ ret' = [NoRet EXCEPT !.op = "InitializeAppMap",
                                  !.err = "failed to create directory"]
                   /\ pc' = "done"
                   /\ UNCHANGED <<remoteApps, dirs>>
              ELSE /\ dirs' = dirs \cup {DSLDirectory, AppMapDir}
                   /\ remoteApps' = list.apps
                   /\ pc' = "Initialize"
                   /\ UNCHANGED ret
    /\ idx' = 1
    /\ UNCHANGED <<runs, token, dryRun, forceDirection,
                   remote, disk, appMapFile, now, appMap,
                   stats, deletedApps, renamedApps, usedFilenames, results>>

\* one iteration: "For each app, add an entry to the app map"
InitializeApp ==
    /\ pc = "Initialize"
    /\ idx <= Len(remoteApps)
    /\ \E fault \in Faults, write \in WriteFaults :
          LET app == remoteApps[idx]
              safeName == sanitizeFilename(app.Name)
              filename == InitUniqueLoop(disk, usedFilenames,
                              YamlName(safeName), safeName, 1)
              got == GetDSL(token, remote, app.ID, fault)
              wr == WriteFile(disk, filename, got.dsl, now, write)
              entry == AppMapping(filename, app.ID)
          IN  /\ usedFilenames' = usedFilenames \cup {filename}
              /\ appMap' = Append(appMap, entry)
              /\ IF fileExists(disk, filename)
                 THEN /\ disk' = disk
                      /\ results' = Append(results,
                            Visit(entry, "kept", SyncResult(entry, ActionNone),
                                  <<>>, NoFaults))
                 ELSE IF got.err
                 THEN /\ disk' = disk
                      /\ results' = Append(results,
                            Visit(entry, "failed", SyncResult(entry, ActionError),
                                  <<"GetDSL">>, [NoFaults EXCEPT !.dsl = fault]))
                 ELSE IF dryRun
                 THEN /\ disk' = disk
                      /\ results' = Append(results,
                            Visit(entry, "fetched",
                                  SyncResult(entry, ActionDownload),
                                  <<"GetDSL">>, NoFaults))
                 ELSE /\ disk' = wr.disk
                      /\ results' = Append(results,
                            Visit(entry, IF wr.err THEN "failed" ELSE "written",
                                  SyncResult(entry, ActionDownload),
                                  <<"GetDSL", "WriteFile">>,
                                  [NoFaults EXCEPT !.write = write]))
    /\ idx' = idx + 1
    /\ UNCHANGED <<dirs, runs, token, dryRun, forceDirection,
                   remote, appMapFile, now, pc,
                   remoteApps, stats, deletedApps, renamedApps, ret>>

\* InitializeAppMap after the loop: "Write the app map to file"
InitializeEnd ==
    /\ pc = "Initialize"
    /\ idx > Len(remoteApps)
    /\ \E fault \in SaveFaults :
          LET saved == SaveAppMap(appMapFile, appMap, fault)
          IN  IF ~dryRun
              THEN /\ appMapFile' = saved.file
                   /\ ret' = IF saved.err # NoError
                             THEN [NoRet EXCEPT !.op = "InitializeAppMap",
                                       !.err = "failed to write app map file",
                                       !.wrote = TRUE]
                             ELSE [NoRet EXCEPT !.op = "InitializeAppMap",
                                       !.Apps = appMap, !.wrote = TRUE]
              ELSE /\ fault = "none"
                   /\ appMapFile' = appMapFile
                   /\ ret' = [NoRet EXCEPT !.op = "InitializeAppMap",
                                  !.Apps = appMap]
    /\ pc' = "done"
    /\ UNCHANGED <<dirs, runs, token, dryRun, forceDirection,
                   remote, disk, now, idx, appMap,
                   remoteApps, stats, deletedApps, renamedApps, usedFilenames,
                   results>>

InitializeAppMap ==
    \/ InitializeBegin
    \/ InitializeApp
    \/ InitializeEnd

-----------------------------------------------------------------------------
(* Initialization runs *)

\* display names for initialization: also one that sanitizes to the
\* numbered form of another and one that sanitizes to nothing
InitNames == Names \cup {<<"a", " ", "1">>, <<"?">>}

InitRecords(i) == {Gone} \cup {Record(i, n, JsonNumber(1, 0)) : n \in InitNames}

InitInit ==
    /\ token = FALSE
    /\ dryRun = FALSE
    /\ forceDirection = ""
    /\ remote \in {r \in [AppIDs -> UNION {InitRecords(i) : i \in AppIDs}] :
                      \A i \in AppIDs : r[i] \in InitRecords(i)}
    /\ disk \in Disks(InitFilenames, {<<0, 1>>})
    /\ appMapFile = NoFile
    /\ dirs \in {{}, {DSLDirectory, AppMapDir}}
    /\ dirs = {} => disk = <<>>
    /\ now = 1
    /\ runs = 1
    /\ Idle

NextInit ==
    \/ NewSyncer
    \/ InitializeAppMap
    \/ Exit

SpecInit == InitInit /\ [][NextInit]_vars

-----------------------------------------------------------------------------
(* Properties of the pair decision *)

\* a remote timestamp that denotes an instant: a number, or a string in one
\* of the known layouts
Usable(j) ==
    \/ j.kind = "number"
    \/ j.kind = "string" /\ j.layout \in Layouts

\* the instant it denotes, in whole seconds, a fraction being cut off
RemoteInstant(j) ==
    IF j.kind = "number" /\ j.half = 1 /\ j.whole < 0
    THEN <<j.whole + 1, 0>>
    ELSE <<j.whole, 0>>

\* instant t is strictly later than instant u
Later(t, u) == t[1] > u[1] \/ (t[1] = u[1] /\ t[2] > u[2])

\* a step in which a direct call of SyncApp returns
SyncAppReturns == pc = "ready" /\ pc' = "done" /\ ret'.op = "SyncApp"

\* the last entry of the record of visits
Last(seq) == seq[Len(seq)]

\* the local file of the pair was found, the existence check answered yes
\* and the record was fetched
PairFetched(v, d) ==
    /\ v.app.Filename \in DOMAIN d
    /\ v.env.stat = "none"
    /\ token
    /\ v.env.exist = "none"
    /\ remote[v.app.AppID].exists
    /\ v.env.info = "none"

\* C1: in download-only mode, for a pair whose local file exists, whose
\* remote record exists and whose remote timestamp is usable, SyncApp
\* returns Download if and only if the remote time is strictly after the
\* local modification time; otherwise it returns None with success and
\* leaves the local file unchanged.
C1_DownloadIffRemoteNewer ==
    [][SyncAppReturns =>
        LET v == Last(results')
            ts == remote[v.app.AppID].updated_at
        IN  (PairFetched(v, disk) /\ Usable(ts)) =>
               IF Later(RemoteInstant(ts), disk[v.app.Filename].mtime)
               THEN v.result.Action = ActionDownload
               ELSE /\ v.result.Action = ActionNone
                    /\ v.result.Success
                    /\ disk' = disk]_vars

C1_Witness ==
    /\ pc = "done"
    /\ ret.op = "SyncApp"
    /\ Last(results).result.Action = ActionDownload
    /\ Last(results).result.Success
    /\ Last(results).env = NoFaults
    /\ remote[1].updated_at.kind = "string"
    /\ ~dryRun

\* C2: for every pair whose remote updatedAt is unusable (null, absent,
\* empty string, a string no layout parses, a value of another shape),
\* SyncApp returns None with success and makes no download, whatever the
\* local modification time is.
C2_UnusableTimestampNoSync ==
    [][SyncAppReturns =>
        LET v == Last(results')
            ts == remote[v.app.AppID].updated_at
        IN  (PairFetched(v, disk) /\ ~Usable(ts)) =>
               /\ v.result.Action = ActionNone
               /\ v.result.Success
               /\ v.result.Error = NoError
               /\ ~Made(v.calls, "GetDSL")
               /\ ~Made(v.calls, "WriteFile")
               /\ disk' = disk]_vars

C2_Witness ==
    /\ pc = "done"
    /\ ret.op = "SyncApp"
    /\ remote[1].exists
    /\ remote[1].updated_at = JsonString("garbage", MaxSec)
    /\ Last(results).env = NoFaults
    /\ Made(Last(results).calls, "GetAppInfo")
    /\ Last(results).result.Action = ActionNone
    /\ Last(results).result.Success
    /\ disk[Last(results).app.Filename].mtime = <<0, 0>>

-----------------------------------------------------------------------------
(* Properties of a reconciliation run *)

\* a step that is one iteration of the loop of SyncAll
IterationStep == pc = "SyncAll" /\ Len(results') = Len(results) + 1

\* the step in which SyncAll returns its statistics
RunEnds == pc = "SyncAll" /\ pc' = "done"

IDs(apps) == {apps[i].AppID : i \in 1..Len(apps)}

Filenames(apps) == {apps[i].Filename : i \in 1..Len(apps)}

VisitsOf(branch) == {i \in 1..Len(results) : results[i].branch = branch}

\* the persisted entry of a remote id
Persisted(file, appID) == {a \in {file.Apps[i] : i \in 1..Len(file.Apps)} : a.AppID = appID}

NamesFor(name) ==
    {YamlName(sanitizeFilename(name))}
        \cup {NumberedName(sanitizeFilename(name), n) : n \in 1..(MaxApps + 3)}

C5_RenameOrSyncNotBoth ==
    [][IterationStep =>
        /\ Last(results').branch \in {"renamed", "deleted"} =>
              /\ \A k \in 1..Len(Last(results').calls) :
                    Last(results').calls[k] \in {"DoesDSLExist", "Remove", "Rename"}
              /\ \A f \in DOMAIN disk' : \E g \in DOMAIN disk : disk'[f] = disk[g]
              /\ stats'.NoAction = stats.NoAction
              /\ stats'.Errors = stats.Errors
        /\ \A i \in 1..Len(results) : results[i].app # Last(results').app
      ]_vars

C5_Witness ==
    /\ pc = "done"
    /\ ret.op = "SyncAll"
    /\ ~dryRun
    /\ Len(results) = 2
    /\ results[1].branch = "renamed"
    /\ results[1].env.fs = "none"
    /\ results[2].branch = "synced"
    /\ results[2].result.Action = ActionDownload
    /\ results[2].result.Success
    /\ stats.Downloads = 1

\* no two entries of a mapping share a filename or a remote id
Distinct(apps) ==
    \A i, j \in 1..Len(apps) :
        i # j => /\ apps[i].Filename # apps[j].Filename
                 /\ apps[i].AppID # apps[j].AppID

\* the mapping SyncAll is working on: the loaded one with the deletions and
\* renames found so far
Working == updatedApps(appMap, 1, deletedApps, renamedApps)

\* C6: starting from a mapping whose filenames and remote ids are pairwise
\* distinct, neither the working mapping of a run nor the persisted mapping
\* ever holds two entries with the same filename or the same remote id.
C6_MappingDistinct ==
    /\ appMapFile.state = "ok" => Distinct(appMapFile.Apps)
    /\ pc \in {"SyncAll", "done"} => Distinct(Working)

-----------------------------------------------------------------------------
(* Properties of initialization *)

\* C7: InitializeAppMap gives every remote record a filename that no other
\* record of the run has and that did not exist in the directory before it
\* was assigned; the filename is the sanitized display name, with a numeric
\* suffix where needed, so records sharing a display name differ by the
\* suffix only; no file that existed before is overwritten or removed.
C7_InitialFilenamesFresh ==
    [][(pc = "Initialize" /\ Len(appMap') = Len(appMap) + 1) =>
        LET e == Last(appMap')
        IN  /\ e.Filename \notin Filenames(appMap)
            /\ e.Filename \notin DOMAIN disk
            /\ e.Filename \in NamesFor(remote[e.AppID].name)
            /\ \A f \in DOMAIN disk : f \in DOMAIN disk' /\ disk'[f] = disk[f]
            /\ DOMAIN disk' \subseteq DOMAIN disk \cup {e.Filename}
      ]_vars

C7_Witness ==
    /\ pc = "done"
    /\ ret.op = "InitializeAppMap"
    /\ ret.err = NoError
    /\ \A i \in AppIDs : remote[i].exists /\ remote[i].name = <<"a">>
    /\ appMap = <<AppMapping(NumberedName(<<"a">>, 1), 1),
                  AppMapping(NumberedName(<<"a">>, 2), 2)>>
    /\ DOMAIN disk = {YamlName(<<"a">>), NumberedName(<<"a">>, 1),
                      NumberedName(<<"a">>, 2)}
    /\ disk[YamlName(<<"a">>)] = LocalFile(<<0, 1>>)
    /\ disk[NumberedName(<<"a">>, 1)].content = remote[1].dsl
    /\ appMapFile = MapFile(appMap)

-----------------------------------------------------------------------------
(* Properties of dry runs and of failures *)

\* the branch and action of every entry in a run that is not dry, started
\* in directory d and given the answers recorded in results
RECURSIVE Classified(_, _, _, _, _)
Classified(i, d, deleted, renamed, st) ==
    IF i > Len(results) THEN <<>>
    ELSE LET o == SyncAllStep(results[i].app, d, remoteApps, deleted, renamed,
                              st, token, remote, FALSE, now, results[i].env)
         IN  <<[branch |-> o.branch, Action |-> o.result.Action]>>
                 \o Classified(i + 1, o.disk, o.deletedApps, o.renamedApps,
                               o.stats)

\* a dry run changes neither the directory nor the mapping file nor the
\* remote records
DryRunMutatesNothing ==
    (dryRun /\ pc = "SyncAll") =>
        /\ disk' = disk
        /\ appMapFile' = appMapFile
        /\ remote' = remote
        /\ dirs' = dirs

\* a Download of a dry run whose content was fetched reports success
DryRunDownloadSucceeds ==
    (/\ dryRun
     /\ IterationStep
     /\ Last(results').result.Action = ActionDownload
     /\ Last(results').env.dsl = "none")
        => Last(results').result.Success

\* every entry of a dry run is classified as in a run that is not dry
DryRunClassifiesAlike ==
    (dryRun /\ RunEnds) =>
        LET other == Classified(1, disk, <<>>, <<>>, SyncStats(Len(appMap), <<now>>))
        IN  \A i \in 1..Len(results) :
                /\ results[i].branch = other[i].branch
                /\ results[i].result.Action = other[i].Action

\* C8: a dry run of SyncAll writes, removes and renames no local file, does
\* not rewrite the mapping file and pushes nothing to the remote; each
\* entry is classified as in a run that is not dry from the same state; a
\* Download in a dry run reports success.
C8_DryRunAsWritten ==
    [][/\ DryRunMutatesNothing
       /\ DryRunDownloadSucceeds
       /\ DryRunClassifiesAlike]_vars

\* the entries visited so far, in the order of the visits
Visited(rs) == [i \in 1..Len(rs) |-> rs[i].app]

\* C9: no failure on an entry stops the run: once the mapping has been
\* loaded, SyncAll visits every entry exactly once, in list order, and
\* returns after the last one.
C9_EveryEntryVisited ==
    [][/\ (pc = "ready" /\ ret'.op = "SyncAll" /\ appMapFile.state = "ok") =>
              /\ pc' = "SyncAll"
              /\ appMap' = appMapFile.Apps
       /\ IterationStep =>
              /\ Len(results') <= Len(appMap)
              /\ Last(results').app = appMap[Len(results')]
       /\ (pc' = "done" /\ ret'.op = "SyncAll" /\ appMapFile.state = "ok") =>
              Visited(results') = appMap'
      ]_vars

\* C10: a run of SyncAll returns before any entry is processed only when
\* loading the mapping fails (the file is missing or malformed); no failure
\* of a remote call, of the list call in particular, does that.
C10_OnlyLoadFailureAborts ==
    (pc = "done" /\ ret.op = "SyncAll" /\ ~ret.hasStats) =>
        /\ appMapFile.state # "ok"
        /\ ret.err = LoadAppMap(appMapFile).err

-----------------------------------------------------------------------------
(* Properties of the statistics and of the mapping file *)

\* a run of SyncAll that has returned statistics
Returned == pc = "done" /\ ret.op = "SyncAll" /\ ret.hasStats

\* the visit met a failure: the existence check failed, the removal or the
\* renaming failed, or SyncApp reported an error
Failed(v) ==
    \/ v.branch = "skipped"
    \/ v.env.fs # "none"
    \/ v.result.Error # NoError

\* C11: whenever an entry of a run of SyncAll met a failure of its own (a
\* local stat, write, rename or remove failure, a failure of the existence
\* check, of the info fetch or of the content fetch of a Download), the
\* statistics returned have Errors >= 1.
C11_FailuresCounted ==
    (Returned /\ \E i \in 1..Len(results) : Failed(results[i])) =>
        ret.stats.Errors >= 1

\* C12: every statistics value SyncAll returns, after a failure to write
\* the mapping as well, has Total equal to the number of entries loaded
\* and has StartTime, EndTime and Duration set, with StartTime <= EndTime.
C12_StatisticsComplete ==
    Returned =>
        /\ ret.stats.Total = Len(appMap)
        /\ ret.stats.StartTime # <<>>
        /\ ret.stats.EndTime # <<>>
        /\ ret.stats.StartTime[1] <= ret.stats.EndTime[1]
        /\ ret.stats.Duration = ret.stats.EndTime[1] - ret.stats.StartTime[1]

\* the step in which SyncAll loads the mapping and asks for the app list
RunBegins == pc = "ready" /\ ret'.op = "SyncAll"

\* nothing in the file system changes
FilesUnchanged ==
    /\ appMapFile' = appMapFile
    /\ disk' = disk
    /\ dirs' = dirs

\* C13: when the mapping file is absent, loading it fails, in SyncAll as
\* well and in dry runs as in others, with an error that tells the
\* operator to run the initialization first, and no file is created; when
\* its content is not well-formed, loading fails with a decode error.
C13_MissingMappingNotCreated ==
    [][RunBegins =>
        /\ appMapFile.state = "absent" =>
              /\ LoadAppMap(appMapFile).err =
                    "app map file not found, run 'difync init' first"
              /\ pc' = "done"
              /\ ret'.err = "app map file not found, run 'difync init' first"
              /\ ~ret'.hasStats
              /\ ~ret'.wrote
              /\ FilesUnchanged
        /\ appMapFile.state = "malformed" =>
              /\ LoadAppMap(appMapFile).err = "failed to decode app map"
              /\ pc' = "done"
              /\ ret'.err = "failed to decode app map"
              /\ ~ret'.hasStats
              /\ FilesUnchanged
      ]_vars

C13_Witness ==
    /\ pc = "done"
    /\ ret.op = "SyncAll"
    /\ dryRun
    /\ appMapFile.state = "absent"
    /\ ret.err = "app map file not found, run 'difync init' first"
    /\ ~ret.hasStats
    /\ Len(results) = 0

\* C14: SyncAll rewrites the mapping file if and only if a deletion or a
\* rename occurred in the run and the run is not dry; in every other run,
\* and at every earlier step of the run, the file is left as it was.
C14_MappingRewrittenIffChanged ==
    [][/\ RunBegins => (appMapFile' = appMapFile /\ ~ret'.wrote)
       /\ pc = "SyncAll" =>
              /\ ret'.wrote <=>
                    /\ RunEnds
                    /\ ~dryRun
                    /\ VisitsOf("deleted") \cup VisitsOf("renamed") # {}
              /\ ~ret'.wrote => appMapFile' = appMapFile
              /\ (ret'.wrote /\ ret'.err = NoError) =>
                    appMapFile' = MapFile(Working)
      ]_vars

C14_Witness ==
    /\ Returned
    /\ ret.wrote
    /\ ret.err = NoError
    /\ ~dryRun
    /\ VisitsOf("renamed") = {1}
    /\ VisitsOf("synced") = {2}
    /\ appMapFile = MapFile(Working)
    /\ appMapFile # MapFile(appMap)

\* C15: saving the mapping is atomic: whenever the mapping file changes,
\* also when the write or the encoding fails, it holds the complete new
\* document, and otherwise it holds the complete previous one; it is never
\* empty or partial.
C15_SaveAtomic ==
    [][appMapFile' # appMapFile =>
          /\ appMapFile'.state = "ok"
          /\ ret'.err = NoError]_vars

\* the errors of a failed write of the mapping file
PersistErrors ==
    {"failed to update app map file", "failed to write updated app map file"}

\* C16: a failure to write the updated mapping is reported as an error of
\* the run only after every entry has been processed, and the deletions
\* and renames already applied to the local files are not rolled back: the
\* directory is as the last iteration left it.
C16_PersistFailureAfterLoop ==
    [][(ret'.op = "SyncAll" /\ ret'.err \in PersistErrors /\ ret # ret') =>
          /\ pc = "SyncAll"
          /\ pc' = "done"
          /\ Visited(results) = appMap
          /\ results' = results
          /\ disk' = disk
          /\ ret'.hasStats
          /\ ~dryRun
      ]_vars

C16_Witness ==
    /\ Returned
    /\ ret.err = "failed to update app map file"
    /\ Len(appMap) = 2
    /\ VisitsOf("deleted") = {1}
    /\ results[1].env.fs = "none"
    /\ appMap[1].Filename \notin DOMAIN disk
    /\ VisitsOf("renamed") = {2}
    /\ results[2].env.fs = "none"
    /\ appMap[2].Filename \notin DOMAIN disk
    /\ DOMAIN disk # {}
    /\ appMapFile = MapFile(appMap)

-----------------------------------------------------------------------------
(* Properties of the order and the outcomes of SyncApp *)

\* the local file of the visited pair was found
LocalFound(v, d) == v.app.Filename \in DOMAIN d /\ v.env.stat = "none"

\* the existence check of the visited pair was answered
CheckAnswered(v) == token /\ v.env.exist = "none"

NoneMade(v, names) == \A n \in names : ~Made(v.calls, n)

\* C17: SyncApp on a pair whose local file exists and whose remote id no
\* longer exists returns None with success and no error, makes no further
\* call and neither removes nor modifies the local file.
C17_GoneRemoteIsNone ==
    [][SyncAppReturns =>
        LET v == Last(results')
        IN  (/\ LocalFound(v, disk)
             /\ CheckAnswered(v)
             /\ ~remote[v.app.AppID].exists) =>
                /\ v.result.Action = ActionNone
                /\ v.result.Success
                /\ v.result.Error = NoError
                /\ NoneMade(v, {"GetAppInfo", "GetDSL", "WriteFile"})
                /\ disk' = disk]_vars

C17_Witness ==
    /\ pc = "done"
    /\ ret.op = "SyncApp"
    /\ token
    /\ ~dryRun
    /\ ~remote[1].exists
    /\ Last(results).env = NoFaults
    /\ Last(results).calls = <<"Stat", "DoesDSLExist">>
    /\ Last(results).result.Action = ActionNone
    /\ Last(results).result.Success
    /\ Last(results).app.Filename \in DOMAIN disk

\* the calls of SyncApp in their order
CallOrder == <<"Stat", "DoesDSLExist", "GetAppInfo", "GetDSL", "WriteFile">>

\* C18: SyncApp checks the local file, then the existence of the remote
\* app, then fetches the record, then compares: when the local file is
\* missing or cannot be stat'ed the result is Error without success and
\* with an error, and no remote call is made; when the existence check or
\* the info fetch fails the result is Error and no content is fetched or
\* written.
C18_OrderOfChecks ==
    [][SyncAppReturns =>
        LET v == Last(results')
            failed == /\ v.result.Action = ActionError
                      /\ ~v.result.Success
                      /\ v.result.Error # NoError
                      /\ disk' = disk
        IN  /\ v.calls = SubSeq(CallOrder, 1, Len(v.calls))
            /\ ~LocalFound(v, disk) =>
                  /\ failed
                  /\ v.result.Error = "failed to stat local file"
                  /\ v.calls = <<"Stat">>
            /\ (LocalFound(v, disk) /\ ~CheckAnswered(v)) =>
                  /\ failed
                  /\ NoneMade(v, {"GetAppInfo", "GetDSL", "WriteFile"})
            /\ (/\ LocalFound(v, disk)
                /\ CheckAnswered(v)
                /\ remote[v.app.AppID].exists
                /\ v.env.info # "none") =>
                  /\ failed
                  /\ NoneMade(v, {"GetDSL", "WriteFile"})]_vars

C18_Witness ==
    /\ pc = "done"
    /\ ret.op = "SyncApp"
    /\ token
    /\ remote[1].exists
    /\ Last(results).env = [NoFaults EXCEPT !.info = "neterr"]
    /\ Last(results).calls = <<"Stat", "DoesDSLExist", "GetAppInfo">>
    /\ Last(results).result.Action = ActionError
    /\ Last(results).result.Error = "failed to get app info"
    /\ Last(results).app.Filename \in DOMAIN disk

\* C19: after a Download by SyncApp that succeeded in a run that is not
\* dry, the local file holds the content the remote returned for that id,
\* the result has no error, and no other file has changed.
C19_DownloadedContent ==
    [][SyncAppReturns =>
        LET v == Last(results')
        IN  (/\ ~dryRun
             /\ v.result.Action = ActionDownload
             /\ v.result.Success) =>
                /\ v.result.Error = NoError
                /\ v.app.Filename \in DOMAIN disk'
                /\ disk'[v.app.Filename].content = remote[v.app.AppID].dsl
                /\ DOMAIN disk' = DOMAIN disk
                /\ \A f \in DOMAIN disk \ {v.app.Filename} :
                      disk'[f] = disk[f]]_vars

C19_Witness ==
    /\ pc = "done"
    /\ ret.op = "SyncApp"
    /\ ~dryRun
    /\ Last(results).result.Action = ActionDownload
    /\ Last(results).result.Success
    /\ Last(results).calls = CallOrder
    /\ remote[1].updated_at.kind = "number"
    /\ disk[Last(results).app.Filename].content = remote[1].dsl
    /\ disk[Last(results).app.Filename].content # LocalFile(<<0, 0>>).content

\* C20: when the content fetch of a Download fails, or the write of the
\* local file fails, the result keeps the action Download, without success
\* and with an error; after a failed fetch the directory is unchanged.
C20_FailedDownload ==
    [][SyncAppReturns =>
        LET v == Last(results')
            failed == /\ v.result.Action = ActionDownload
                      /\ ~v.result.Success
                      /\ v.result.Error # NoError
        IN  /\ (Made(v.calls, "GetDSL") /\ v.env.dsl # "none") =>
                  /\ failed
                  /\ ~Made(v.calls, "WriteFile")
                  /\ disk' = disk
            /\ (Made(v.calls, "WriteFile") /\ v.env.write # "none") =>
                  failed]_vars

C20_Witness ==
    /\ pc = "done"
    /\ ret.op = "SyncApp"
    /\ ~dryRun
    /\ Last(results).env = [NoFaults EXCEPT !.dsl = "neterr"]
    /\ Last(results).calls = <<"Stat", "DoesDSLExist", "GetAppInfo", "GetDSL">>
    /\ Last(results).result.Action = ActionDownload
    /\ ~Last(results).result.Success
    /\ Last(results).result.Error = "failed to get DSL from Dify"
    /\ disk[Last(results).app.Filename] = LocalFile(<<0, 0>>)

-----------------------------------------------------------------------------
(* Properties of repeated calls and of the tie-break *)

\* a step in which the second call of SyncApp on a pair returns
SecondCallReturns == pc = "done" /\ Len(results) = 1 /\ Len(results') = 2

\* the call settled the pair: it found nothing to do, or it downloaded the
\* remote content into the local file
Settled(v) ==
    /\ v.result.Success
    /\ \/ v.result.Action = ActionNone
       \/ v.result.Action = ActionDownload /\ ~dryRun

\* C21: SyncApp called twice in succession on the same pair, with no remote
\* or local change in between, is idempotent: after a first call that
\* returned None, or that downloaded in a run that is not dry, the second
\* call returns None.
C21_SecondCallIsNone ==
    [][SecondCallReturns =>
        LET first == results'[1]
            second == results'[2]
        IN  (Settled(first) /\ second.env = NoFaults) =>
                /\ second.result.Action = ActionNone
                /\ second.result.Success
                /\ disk' = disk]_vars

-----------------------------------------------------------------------------
(* SyncAll run after SyncAll: the second run loads the mapping the first   *)
(* one wrote and finds the directory as the first one left it              *)

MaxSequence == 2

InitSequence ==
    /\ token = FALSE
    /\ dryRun = FALSE
    /\ forceDirection = ""
    /\ remote \in {r \in [AppIDs -> UNION {Records(i) : i \in AppIDs}] :
                      \A i \in AppIDs : r[i] \in Records(i)}
    /\ disk \in Disks({YamlName(sanitizeFilename(n)) : n \in Names},
                      {<<0, 1>>})
    /\ appMapFile \in {MapFile(m) : m \in {a \in AppMaps : Len(a) = MaxApps}}
    /\ dirs = {DSLDirectory, AppMapDir}
    /\ now = 1
    /\ runs = MaxSequence
    /\ Idle

SpecSequence == InitSequence /\ [][Next]_vars

-----------------------------------------------------------------------------
(* sanitizeFilename on its own, over every short display name *)

MaxNameLen == 3

\* the runes of the display names: reserved ones, whitespace in and outside
\* ASCII, and others in and outside the Latin script
Runes ==
    invalidChars \cup {" ", "\t", "\n", "\r", "U+00A0", "U+3000"}
                 \cup {"a", "p", "_", "U+65E5"}

DisplayNames == UNION {[1..n -> Runes] : n \in 0..MaxNameLen}

InitSanitize ==
    /\ token = FALSE
    /\ dryRun = FALSE
    /\ forceDirection = ""
    /\ \E n \in DisplayNames :
          remote = [i \in AppIDs |->
                        IF i = 1 THEN Record(1, n, JsonNumber(1, 0)) ELSE Gone]
    /\ disk = <<>>
    /\ appMapFile = NoFile
    /\ dirs = {}
    /\ now = 0
    /\ runs = MaxRuns
    /\ Idle

\* safeName := s.sanitizeFilename(app.Name)
CallSanitizeFilename ==
    /\ pc = "idle"
    /\ pc' = "done"
    /\ ret' = [NoRet EXCEPT !.op = "sanitizeFilename",
                            !.name = sanitizeFilename(remote[1].name)]
    /\ UNCHANGED <<dirs, runs, token, dryRun, forceDirection, remote, disk,
                   appMapFile, now, idx, appMap, remoteApps, stats,
                   deletedApps, renamedApps, usedFilenames, results>>

NextSanitize == CallSanitizeFilename \/ Exit

SpecSanitize == InitSanitize /\ [][NextSanitize]_vars

-----------------------------------------------------------------------------
\* a step in which a direct call of SyncApp of the bidirectional syncer
\* returns
BidirectionalReturns ==
    /\ pc = "readyBidirectional"
    /\ pc' = "done"
    /\ ret'.op = "SyncAppBidirectional"

\* a timestamp the bidirectional client decodes to an instant
Decodable(j) == j.kind = "string" /\ j.layout = RFC3339

-----------------------------------------------------------------------------
\* the characters no filename may hold, and the Unicode whitespace among
\* the runes of the display names
Reserved == {"/", "\\", ":", "*", "?", "\"", "<", ">", "|"}

Whitespace == {" ", "\t", "\n", "\r", "U+00A0", "U+3000"}

\* the name without its reserved characters
Kept(name) == SelectSeq(name, LAMBDA c : c \notin Reserved)

\* the filtered result: the characters kept, each whitespace as "_"
Filtered(name) ==
    [k \in 1..Len(Kept(name)) |->
        IF Kept(name)[k] \in Whitespace THEN "_" ELSE Kept(name)[k]]

\* sanitizeFilename has returned
Sanitized == pc = "done" /\ ret.op = "sanitizeFilename"

\* C23: for every display name, sanitizeFilename returns a string with
\* none of the characters / \ : * ? " < > | in which every whitespace
\* character of the input is replaced by exactly one "_", reserved
\* characters are dropped without substitution, and all other characters
\* appear unchanged and in the same order.
C23_SanitizedName ==
    Sanitized =>
        /\ \A k \in 1..Len(ret.name) : ret.name[k] \notin Reserved
        /\ Filtered(remote[1].name) # <<>> =>
               ret.name = Filtered(remote[1].name)

C23_Witness ==
    /\ Sanitized
    /\ remote[1].name = <<" ", "?", "U+3000">>
    /\ ret.name = <<"_", "_">>

\* C24: sanitizeFilename returns the literal "app" when the filtered
\* result is empty, which is so exactly for the empty input and for inputs
\* made only of reserved characters, and the filtered result otherwise; a
\* whitespace-only input yields only underscores; the result is never the
\* empty string.
C24_DefaultName ==
    Sanitized =>
        LET name == remote[1].name
            onlyReserved == \A k \in 1..Len(name) : name[k] \in Reserved
            onlySpace == /\ name # <<>>
                         /\ \A k \in 1..Len(name) : name[k] \in Whitespace
        IN  /\ onlyReserved <=> Filtered(name) = <<>>
            /\ IF onlyReserved
               THEN ret.name = <<"a", "p", "p">>
               ELSE ret.name = Filtered(name)
            /\ onlySpace => /\ Len(ret.name) = Len(name)
                            /\ \A k \in 1..Len(ret.name) : ret.name[k] = "_"
            /\ ret.name # <<>>

C24_Witness ==
    /\ Sanitized
    /\ remote[1].name = <<"?", "/">>
    /\ ret.name = <<"a", "p", "p">>

-----------------------------------------------------------------------------
\* a filename is taken for an entry when another entry of the mapping holds
\* it or a file other than the entry's own has it
TakenFor(app, f) ==
    \/ \E k \in 1..Len(appMap) : appMap[k] # app /\ appMap[k].Filename = f
    \/ f \in DOMAIN disk /\ f # app.Filename

\* the filename the display name calls for: base.yaml, or base_n.yaml for
\* the smallest n with a name that is not taken
ExpectedFor(app, base) ==
    IF ~TakenFor(app, YamlName(base)) THEN YamlName(base)
    ELSE NumberedName(base,
            CHOOSE n \in 1..(MaxApps + 3) :
                /\ ~TakenFor(app, NumberedName(base, n))
                /\ \A m \in 1..(n - 1) : TakenFor(app, NumberedName(base, m)))

\* C25: in SyncAll the expected filename of an entry is computed with the
\* entry's own file left out of the exists-on-disk check, so an entry whose
\* stored filename is the one its unchanged display name calls for is not
\* renamed, with or without a deduplication suffix: a run over an
\* unchanged remote and local state performs no rename.
C25_UnchangedNameNotRenamed ==
    [][IterationStep =>
        LET v == Last(results')
        IN  (/\ remote[v.app.AppID].exists
             /\ v.app.Filename =
                    ExpectedFor(v.app,
                                sanitizeFilename(remote[v.app.AppID].name))) =>
                /\ v.branch # "renamed"
                /\ renamedApps' = renamedApps]_vars

-----------------------------------------------------------------------------
TimesObtained(v, d) ==
    /\ PairFetched(v, d)
    /\ \/ Decodable(remote[v.app.AppID].updated_at)
       \/ remote[v.app.AppID].updated_at.kind \in {"null", "missing"}

-----------------------------------------------------------------------------
\* the whole part of the number whole + half/2, its fraction cut off
WholePart(j) == IF j.whole < 0 /\ j.half = 1 THEN j.whole + 1 ELSE j.whole

\* C28: a numeric remote updatedAt is taken as whole seconds since the
\* epoch, an integer and a number with a fraction and the same whole part
\* being the same instant: SyncApp downloads exactly when the instant of
\* the whole part is strictly after the local modification time.
C28_NumericTimestamp ==
    [][SyncAppReturns =>
        LET v == Last(results')
            ts == remote[v.app.AppID].updated_at
        IN  (PairFetched(v, disk) /\ ts.kind = "number") =>
               (v.result.Action = ActionDownload
                   <=> Later(<<WholePart(ts), 0>>,
                             disk[v.app.Filename].mtime))]_vars

C28_Witness ==
    /\ pc = "done"
    /\ ret.op = "SyncApp"
    /\ ~dryRun
    /\ Last(results).env = NoFaults
    /\ remote[1].updated_at.kind = "number"
    /\ remote[1].updated_at.half = 1
    /\ remote[1].updated_at.whole = 1
    /\ Last(results).result.Action = ActionDownload
    /\ Last(results).result.Success

-----------------------------------------------------------------------------
\* a step of InitializeAppMap
InitializeStep == pc \in {"ready", "Initialize"} /\ pc' \in {"Initialize", "done"}

\* C29: InitializeAppMap in a dry run creates no directory, writes no DSL
\* file and does not create the mapping file, and still returns the
\* mapping it would have written.
C29_DryRunInitialization ==
    [][(dryRun /\ InitializeStep) =>
        /\ dirs' = dirs
        /\ disk' = disk
        /\ appMapFile' = appMapFile
        /\ (pc' = "done" /\ ret'.err = NoError) => ret'.Apps = appMap]_vars

-----------------------------------------------------------------------------
\* the filenames reserved when an entry is given a new name in SyncAll:
\* those given earlier in the run and those of the other entries that
\* were neither renamed nor deleted
ReservedFor(app) ==
    Filenames(renamedApps)
        \cup {appMap[k].Filename : k \in
                 {j \in 1..Len(appMap) :
                     /\ appMap[j] # app
                     /\ ~HasID(renamedApps, appMap[j].AppID)
                     /\ ~HasID(deletedApps, appMap[j].AppID)}}

\* base.yaml if it is not taken, otherwise base_n.yaml for the smallest
\* n >= 1 that is not taken
MinimalFree(base, taken) ==
    IF YamlName(base) \notin taken THEN YamlName(base)
    ELSE NumberedName(base,
            CHOOSE n \in 1..(2 * MaxApps + 3) :
                /\ NumberedName(base, n) \notin taken
                /\ \A m \in 1..(n - 1) : NumberedName(base, m) \in taken)

\* C30: the filename chosen by deduplication is base.yaml if that is
\* neither reserved nor on disk, otherwise base_n.yaml for the smallest
\* n >= 1 such that base_n.yaml is neither reserved nor on disk; here for
\* the name SyncAll gives an entry whose display name changed.
C30_MinimalFreshName ==
    [][IterationStep =>
        LET v == Last(results')
            base == sanitizeFilename(remote[v.app.AppID].name)
        IN  (/\ v.branch = "renamed"
             /\ v.app.Filename \notin NamesFor(remote[v.app.AppID].name)) =>
                Last(renamedApps').Filename =
                    MinimalFree(base, ReservedFor(v.app) \cup DOMAIN disk)]_vars

-----------------------------------------------------------------------------
\* the visits of a run whose existence check gave no answer
Inconclusive == {i \in 1..Len(results) : results[i].env.check # "none"}

\* C31: an inconclusive existence check is never treated as a remote
\* deletion: when the check of an entry returns an error, SyncAll removes
\* no local file in that step and does not drop the entry from the
\* mapping; only a definite not-found answer leads to the deletion step.
C31_InconclusiveIsNotDeletion ==
    [][/\ IterationStep =>
            LET v == Last(results')
            IN  /\ (~token \/ v.env.check # "none") =>
                       /\ disk' = disk
                       /\ deletedApps' = deletedApps
                       /\ renamedApps' = renamedApps
                /\ v.branch = "deleted" =>
                       /\ token
                       /\ v.env.check = "none"
                       /\ ~remote[v.app.AppID].exists
       /\ RunEnds =>
            \A i \in Inconclusive :
                /\ ~HasID(deletedApps, results[i].app.AppID)
                /\ appMapFile'.state = "ok" =>
                       \E k \in 1..Len(appMapFile'.Apps) :
                           appMapFile'.Apps[k] = results[i].app
      ]_vars

C31_Witness ==
    /\ pc = "done"
    /\ ret.op = "SyncAll"
    /\ ret.wrote
    /\ ~dryRun
    /\ Len(results) = 2
    /\ results[1].branch = "skipped"
    /\ results[1].env.check = "status"
    /\ ~remote[results[1].app.AppID].exists
    /\ results[1].app.Filename \in DOMAIN disk
    /\ results[2].branch = "deleted"
    /\ appMapFile = MapFile(<<results[1].app>>)

-----------------------------------------------------------------------------
\* C32: at the end of every SyncAll run that returns statistics each
\* mapping entry has been counted in exactly one counter, so the counters
\* add up to Total, also for entries that were renamed and for entries
\* whose existence check failed.
C32_CountersAddUp ==
    [][(RunEnds /\ ret'.hasStats) =>
        /\ ret'.stats.Total = Len(appMap)
        /\ ret'.stats.Downloads + ret'.stats.NoAction + ret'.stats.Errors
              = ret'.stats.Total]_vars

-----------------------------------------------------------------------------
\* C33: in a run that is not dry the mapping follows the disk: an entry is
\* given a new filename only when its local file really was moved to that
\* name, so a failed rename leaves the entry with the filename of its
\* existing file, and an entry is dropped for a remote deletion only with
\* its local file gone.
C33_MappingAgreesWithDisk ==
    [][(~dryRun /\ IterationStep) =>
        LET v == Last(results')
        IN  /\ renamedApps' # renamedApps =>
                  /\ v.app.Filename \in DOMAIN disk
                  /\ v.app.Filename \notin DOMAIN disk'
                  /\ Last(renamedApps').Filename \in DOMAIN disk'
                  /\ disk'[Last(renamedApps').Filename] = disk[v.app.Filename]
            /\ deletedApps' # deletedApps =>
                  v.app.Filename \notin DOMAIN disk']_vars

-----------------------------------------------------------------------------
\* the step renames the local file of the entry
FileRenamed(v) ==
    /\ ~dryRun
    /\ v.branch = "renamed"
    /\ v.env.fs = "none"
    /\ v.app.Filename \in DOMAIN disk

\* C34: a rename performed by SyncAll never overwrites an existing file:
\* when the local file of an entry is renamed, the target name is not on
\* disk and is not the filename of any other mapping entry, entries
\* renamed earlier in the run and entries whose file is missing included.
C34_RenameTargetFree ==
    [][IterationStep =>
        LET v == Last(results')
        IN  FileRenamed(v) =>
               /\ Last(renamedApps').Filename \notin DOMAIN disk
               /\ Last(renamedApps').Filename \notin ReservedFor(v.app)]_vars

-----------------------------------------------------------------------------
\* the entries of the loaded mapping that the run did not find deleted, in
\* the order of the mapping
Survivors ==
    SelectSeq(appMap,
              LAMBDA a : \A i \in VisitsOf("deleted") : results[i].app # a)

\* the entry was neither deleted nor renamed by the run
Untouched(a) ==
    \A i \in VisitsOf("deleted") \cup VisitsOf("renamed") : results[i].app # a

\* C35: the mapping SyncAll writes holds exactly the loaded entries minus
\* those found deleted, in their original order and each with its remote
\* id; an entry neither deleted nor renamed is written back unchanged and
\* no entry is added.
C35_WrittenMapping ==
    [][(RunEnds /\ ret'.wrote /\ ret'.err = NoError) =>
        /\ appMapFile'.state = "ok"
        /\ Len(appMapFile'.Apps) = Len(Survivors)
        /\ \A k \in 1..Len(Survivors) :
              /\ appMapFile'.Apps[k].AppID = Survivors[k].AppID
              /\ Untouched(Survivors[k]) =>
                    appMapFile'.Apps[k] = Survivors[k]]_vars

C35_Witness ==
    /\ pc = "done"
    /\ ret.op = "SyncAll"
    /\ ret.wrote
    /\ ret.err = NoError
    /\ Len(results) = 2
    /\ results[1].branch = "renamed"
    /\ results[2].branch = "synced"
    /\ Len(appMapFile.Apps) = 2
    /\ appMapFile.Apps[1] = renamedApps[1]
    /\ appMapFile.Apps[1].AppID = appMap[1].AppID
    /\ appMapFile.Apps[2] = appMap[2]

-----------------------------------------------------------------------------
\* C36: every SyncResult returned by SyncApp is well formed: Filename and
\* AppID are those of the input entry, Action is one of None, Download,
\* Upload and Error, Success implies that Error is nil, Action Error
\* implies no success and an error, Action None implies success.
C36_ResultWellFormed ==
    [][(SyncAppReturns \/ BidirectionalReturns) =>
        LET v == Last(results')
            r == v.result
        IN  /\ r.Filename = v.app.Filename
            /\ r.AppID = v.app.AppID
            /\ r.Action \in {"none", "download", "upload", "error"}
            /\ r.Success => r.Error = "nil"
            /\ r.Action = "error" => ~r.Success /\ r.Error # "nil"
            /\ r.Action = "none" => r.Success]_vars

C36_Witness ==
    /\ pc = "done"
    /\ ret.op = "SyncAppBidirectional"
    /\ ~dryRun
    /\ Last(results).env.update = "neterr"
    /\ Last(results).result.Action = "upload"
    /\ ~Last(results).result.Success
    /\ Last(results).result.Error # "nil"

-----------------------------------------------------------------------------
\* file f is the same before and after the step
Kept_(f) == f \in DOMAIN disk' /\ disk'[f] = disk[f]

\* no file outside the mapping is removed, renamed or overwritten
UnrelatedFilesKept ==
    \A f \in DOMAIN disk :
        f \notin Filenames(appMap) \cup Filenames(renamedApps) => Kept_(f)

\* the entries already visited in this run that were neither deleted nor
\* renamed nor downloaded keep their local file
VisitedFilesKept ==
    \A i \in 1..Len(results) :
        (/\ results[i].branch \in {"synced", "skipped"}
         /\ results[i].result.Action # ActionDownload
         /\ results[i].app.Filename \in DOMAIN disk) =>
            Kept_(results[i].app.Filename)

\* C37: SyncAll only touches local files that belong to mapping entries: a
\* file whose name is not the filename of any entry is never removed,
\* renamed or overwritten in any sequence of runs, and the local file of
\* an entry that is neither deleted, renamed nor downloaded in a run is
\* left unchanged by that run.
C37_OnlyMappedFilesTouched ==
    [][IterationStep => UnrelatedFilesKept /\ VisitedFilesKept]_vars

-----------------------------------------------------------------------------
\* the ids of the remote records, in the order of the list call
ListedIDs == SelectSeq([i \in AppIDs |-> i], LAMBDA i : remote[i].exists)

\* InitializeAppMap returns
InitializeReturns ==
    /\ pc \in {"ready", "Initialize"}
    /\ pc' = "done"
    /\ ret'.op = "InitializeAppMap"

\* C38: InitializeAppMap returns a mapping with exactly one entry per
\* remote record of the list, in list order and with the record's id, also
\* for records whose initial download failed; when the list is empty or
\* the list call fails it returns an error and writes no mapping file;
\* and after an initialization that is not dry in which every download
\* succeeded every mapping entry has a local file.
C38_InitialMapping ==
    [][InitializeReturns =>
        /\ ret'.err = NoError =>
              /\ Len(ret'.Apps) = Len(ListedIDs)
              /\ \A k \in 1..Len(ListedIDs) :
                    ret'.Apps[k].AppID = ListedIDs[k]
        /\ (~token \/ ListedIDs = <<>>) =>
              /\ ret'.err # NoError
              /\ ret'.Apps = <<>>
              /\ appMapFile' = appMapFile
              /\ appMapFile' = NoFile
        /\ (/\ ret'.err = NoError
            /\ ~dryRun
            /\ \A i \in 1..Len(results) : results[i].branch = "written") =>
              \A k \in 1..Len(ret'.Apps) :
                  /\ ret'.Apps[k].Filename \in DOMAIN disk'
                  /\ disk'[ret'.Apps[k].Filename].content
                        = remote[ret'.Apps[k].AppID].dsl]_vars

C38_Witness ==
    /\ pc = "done"
    /\ ret.op = "InitializeAppMap"
    /\ ret.err = NoError
    /\ ~dryRun
    /\ Len(ret.Apps) = 2
    /\ ret.Apps[1].AppID = 1
    /\ ret.Apps[2].AppID = 2
    /\ results[1].branch = "failed"
    /\ results[1].env.dsl # "none"
    /\ results[2].branch = "written"
    /\ ret.Apps[1].Filename \notin DOMAIN disk
    /\ ret.Apps[2].Filename \in DOMAIN disk
    /\ appMapFile = MapFile(ret.Apps)
====
